---- MODULE Spec2Model ----
(***************************************************************************)
(* A model of app_boundary.py: the dashboard script that reads a CSV of    *)
(* observation windows, normalises it (parse, drop, sort, observed flag,   *)
(* epoch-relative offsets), summarises it and colours a context track.     *)
(*                                                                         *)
(* The script is straight-line; every statement group is one action and    *)
(* pc is the position in the script.  A data frame is a sequence of row    *)
(* records (idx is the pandas index label of the row); the columns the     *)
(* script adds later (_observed, x0, x1, w) are sequences aligned with df. *)
(*                                                                         *)
(* Values.  A raw timestamp cell is <<>> (an empty or unparseable field)   *)
(* or <<local, offset>> (a local wall-clock second and its UTC offset).    *)
(* A parsed timestamp is <<>> (NaT) or <<utc>>.  A raw flag is an integer. *)
(* A string is a sequence of character codes; the empty CSV field is read  *)
(* as a missing value and is <<>>.                                         *)
(***************************************************************************)
EXTENDS Integers, Sequences, FiniteSets, TLC

\* ---- bounds of the model
MaxRows == 2
MaxTime == 2
CtxRows == 26

\* ---- constants of the program
PaletteSize == 20
TitleMax == 60
PreviewMax == 200

candidate_flags == {"is_observed_strict", "is_observed", "is_outside_observation"}
required_cols == {"window_start", "window_end"}
context_candidates == <<"process", "title", "app", "window_name">>
NoContext == "(none)"

NaT == <<>>
\* "unknown" as character codes
Unknown == <<117, 110, 107, 110, 111, 119, 110>>

VARIABLES
    columns,      \* df.columns of the CSV as read
    csv,          \* the rows of the CSV as read
    flag_col,     \* the sidebar's flag column
    pc,           \* position in the script
    error,        \* st.error was called
    df,           \* the data frame
    observed,     \* df["_observed"]
    total, observed_n, outside_n,
    t0, x0, x1, w,
    context_col,  \* the sidebar's context column
    ctx, uniq, colour,
    preview

vars == <<columns, csv, flag_col, pc, error, df, observed, total, observed_n,
          outside_n, t0, x0, x1, w, context_col, ctx, uniq, colour, preview>>

Min(a, b) == IF a <= b THEN a ELSE b
Max(a, b) == IF a >= b THEN a ELSE b

Range(s) == {s[i] : i \in DOMAIN s}

\* ------------------------------------------------------------------------
\* pandas operations, as the script uses them

\* a check that forgets window_end
missing_cols_start_only(cols) == {"window_start"} \ cols

\* line 27: required_cols - set(df.columns)
missing_cols(cols) == required_cols \ cols

\* pd.to_datetime(cell, errors="coerce", utc=True)
to_datetime(cell) ==
    IF Len(cell) = 2 THEN <<cell[1] - cell[2]>> ELSE NaT

\* Series.astype(bool) of a numeric flag
astype_bool(v) == v # 0

\* the rows of d at the positions keep, in d's order
RECURSIVE SelectRows(_, _)
SelectRows(d, keep) ==
    IF d = <<>> THEN <<>>
    ELSE LET rest == SelectRows(Tail(d), {k - 1 : k \in keep \ {1}})
         IN IF 1 \in keep THEN <<Head(d)>> \o rest ELSE rest

\* a drop that looks at window_start alone
dropna_start_only(d) ==
    SelectRows(d, {i \in DOMAIN d : d[i].window_start # NaT})

\* df.dropna(subset=["window_start", "window_end"])
dropna(d) ==
    SelectRows(d, {i \in DOMAIN d :
                     d[i].window_start # NaT /\ d[i].window_end # NaT})

\* df.sort_values("window_start"): the default kind is quicksort, which is
\* not stable, so every ascending arrangement of the rows is an outcome.
RECURSIVE SortOutcomes(_, _)
SortOutcomes(d, S) ==
    IF S = {} THEN {<<>>}
    ELSE LET least == {i \in S : \A j \in S :
                          d[i].window_start[1] <= d[j].window_start[1]}
         IN UNION {{<<d[i]>> \o rest : rest \in SortOutcomes(d, S \ {i})} :
                   i \in least}

\* a frame left in input order
sort_values_unsorted(d) == {d}
\* a sort with ascending=False
sort_values_descending(d) ==
    {[i \in DOMAIN o |-> o[Len(o) + 1 - i]] : o \in SortOutcomes(d, DOMAIN d)}

sort_values(d) == SortOutcomes(d, DOMAIN d)

\* a flag taken as it is, whatever the column
derive_observed_plain(d, fc) == [i \in DOMAIN d |-> astype_bool(d[i].flag)]

\* the _observed column
derive_observed(d, fc) ==
    [i \in DOMAIN d |->
        IF fc = "is_outside_observation"
        THEN ~astype_bool(d[i].flag)
        ELSE astype_bool(d[i].flag)]

\* Series.count() in place of Series.sum()
sum_bool_count(s) == Len(s)

\* int(Series.sum()) of a boolean column
RECURSIVE sum_bool(_)
sum_bool(s) ==
    IF s = <<>> THEN 0
    ELSE (IF Head(s) THEN 1 ELSE 0) + sum_bool(Tail(s))

\* the minimum taken before the rows are dropped
ws_min_before_drop(d) ==
    LET starts == {to_datetime(csv[i].window_start)[1] :
                     i \in {k \in DOMAIN csv : to_datetime(csv[k].window_start) # NaT}}
    IN IF starts = {} THEN NaT
       ELSE <<CHOOSE m \in starts : \A v \in starts : m <= v>>

\* df["window_start"].min()
ws_min(d) ==
    IF d = <<>> THEN NaT
    ELSE <<CHOOSE m \in {d[i].window_start[1] : i \in DOMAIN d} :
             \A i \in DOMAIN d : m <= d[i].window_start[1]>>

\* window_end left absolute
col_x1_absolute(d, t) == [i \in DOMAIN d |-> d[i].window_end[1]]
\* a difference that is not clipped
col_w_unclipped(a, b) == [i \in DOMAIN a |-> b[i] - a[i]]

\* (column - t0).dt.total_seconds()
col_x0(d, t) == [i \in DOMAIN d |-> d[i].window_start[1] - t[1]]
col_x1(d, t) == [i \in DOMAIN d |-> d[i].window_end[1] - t[1]]
\* (x1 - x0).clip(lower=0)
col_w(a, b) == [i \in DOMAIN a |-> Max(b[i] - a[i], 0)]

\* df[context_col].fillna("unknown").astype(str), sliced for "title"
str_slice(s, n) == SubSeq(s, 1, Min(Len(s), n))
ctx_label(v, cc) ==
    LET filled == IF v = <<>> THEN Unknown ELSE v
    IN IF cc = "title" THEN str_slice(filled, TitleMax) ELSE filled
ctx_series(d, cc) == [i \in DOMAIN d |-> ctx_label(d[i].label, cc)]

\* Series.unique().tolist(): the distinct values in order of appearance
RECURSIVE unique(_)
unique(s) ==
    IF s = <<>> THEN <<>>
    ELSE LET front == unique(SubSeq(s, 1, Len(s) - 1))
         IN IF s[Len(s)] \in Range(front) THEN front
            ELSE Append(front, s[Len(s)])

\* enumerate(uniq, 1)
colour_of_one_based(i) == (i + 1) % PaletteSize

\* colour_map = {u: cm.tab20(i % 20) for i, u in enumerate(uniq)}
colour_of(i) == i % PaletteSize
colour_map(u) == [k \in DOMAIN u |-> colour_of(k - 1)]
\* colour_map.get(label): the palette index of a label of uniq
map_get(u, label) ==
    colour_map(u)[CHOOSE k \in DOMAIN u : u[k] = label]

\* [c for c in [...] if c in df.columns]
context_cols == {context_candidates[i] : i \in DOMAIN context_candidates} \cap columns

\* ------------------------------------------------------------------------
\* the tables the model reads

RawCells == {<<>>} \cup {<<t, 0>> : t \in 0..MaxTime}
RawFlags == {0, 1}
RawRows ==
    [window_start : RawCells, window_end : RawCells, flag : RawFlags, label : {<<>>}]
SmallTables == UNION {[1..n -> RawRows] : n \in 0..MaxRows}
OneRowTables == UNION {[1..n -> RawRows] : n \in 0..1}

\* the label of id k: 0 is the missing value, 1 the literal "unknown",
\* 2 and 3 are titles that differ only after TitleMax characters, 4 is a
\* title longer than TitleMax, the others are short
Pad(n) == [j \in 1..n |-> 32]
Label(k) ==
    CASE k = 0 -> <<>>
      [] k = 1 -> Unknown
      [] k \in {2, 3} -> Pad(TitleMax) \o <<64 + k>>
      [] k = 4 -> <<68>> \o Pad(TitleMax)
      [] OTHER -> <<64 + k>>

\* a long capture log: window starts ascending, descending or with one tie,
\* every eleventh start unparseable, offsets alternating, ends before, at or
\* after the start, labels cycling
LongRow(i, m, s, ord) ==
    LET utc == CASE ord = "asc" -> i
                 [] ord = "desc" -> CtxRows - i
                 [] OTHER -> Max(i, 2)
        off == i % 2
    IN [window_start |-> IF i % 11 = 0 THEN <<>> ELSE <<utc + off, off>>,
        window_end   |-> <<utc + off + (i % 3) - 1, off>>,
        flag         |-> i % 3,
        label        |-> Label((s * i) % m)]
LongTable(m, s, ord) == [i \in 1..CtxRows |-> LongRow(i, m, s, ord)]

\* line 20: pd.read_csv gives the rows a RangeIndex
Frame(rows) ==
    [i \in DOMAIN rows |->
        [idx |-> i - 1,
         window_start |-> rows[i].window_start,
         window_end |-> rows[i].window_end,
         flag |-> rows[i].flag,
         label |-> rows[i].label]]

Blank ==
    /\ pc = "validate"
    /\ error = FALSE
    /\ df = Frame(csv)
    /\ observed = <<>>
    /\ total = -1 /\ observed_n = -1 /\ outside_n = -1
    /\ t0 = NaT /\ x0 = <<>> /\ x1 = <<>> /\ w = <<>>
    /\ context_col = NoContext
    /\ ctx = <<>> /\ uniq = <<>> /\ colour = <<>>
    /\ preview = <<>>

\* short tables with every combination of cells, a sound schema
InitSmall ==
    /\ flag_col \in {"is_observed_strict", "is_outside_observation"}
    /\ columns = required_cols \cup {flag_col}
    /\ csv \in SmallTables

\* a schema that lacks a required column or the chosen flag column
InitDefect ==
    /\ flag_col \in candidate_flags
    /\ \E present \in SUBSET required_cols : \E f \in candidate_flags :
          /\ columns = present \cup {f}
          /\ ~(required_cols \subseteq columns /\ flag_col \in columns)
    /\ csv \in OneRowTables

\* long tables with a context column
InitLong ==
    /\ flag_col \in candidate_flags
    /\ \E c \in {"process", "title"} : columns = required_cols \cup {flag_col, c}
    /\ \E m \in 1..CtxRows : \E s \in {1, 5, 7} : \E ord \in {"asc", "desc", "tie"} :
          csv = LongTable(m, s, ord)

Init == (InitSmall \/ InitDefect \/ InitLong) /\ Blank

\* ------------------------------------------------------------------------
\* the script

\* lines 25-34: validate the required columns and the flag column
Validate ==
    /\ pc = "validate"
    /\ IF missing_cols(columns) # {} \/ flag_col \notin columns
       THEN /\ error' = TRUE
            /\ pc' = "stopped"
       ELSE /\ error' = error
            /\ pc' = "parse"
    /\ UNCHANGED <<columns, csv, flag_col, df, observed, total, observed_n, outside_n,
                   t0, x0, x1, w, context_col, ctx, uniq, colour, preview>>

\* lines 37-39: parse both timestamp columns
ParseTimes ==
    /\ pc = "parse"
    /\ df' = [i \in DOMAIN df |->
                [df[i] EXCEPT !.window_start = to_datetime(@),
                              !.window_end = to_datetime(@)]]
    /\ pc' = "dropna"
    /\ UNCHANGED <<columns, csv, flag_col, error, observed, total, observed_n,
                   outside_n, t0, x0, x1, w, context_col, ctx, uniq, colour, preview>>

\* line 41
DropNa ==
    /\ pc = "dropna"
    /\ df' = dropna(df)
    /\ pc' = "sort"
    /\ UNCHANGED <<columns, csv, flag_col, error, observed, total, observed_n,
                   outside_n, t0, x0, x1, w, context_col, ctx, uniq, colour, preview>>

\* line 42
SortValues ==
    /\ pc = "sort"
    /\ df' \in sort_values(df)
    /\ pc' = "observed"
    /\ UNCHANGED <<columns, csv, flag_col, error, observed, total, observed_n,
                   outside_n, t0, x0, x1, w, context_col, ctx, uniq, colour, preview>>

\* lines 45-48
DeriveObserved ==
    /\ pc = "observed"
    /\ observed' = derive_observed(df, flag_col)
    /\ pc' = "summary"
    /\ UNCHANGED <<columns, csv, flag_col, error, df, total, observed_n,
                   outside_n, t0, x0, x1, w, context_col, ctx, uniq, colour, preview>>

\* lines 51-53
Summary ==
    /\ pc = "summary"
    /\ total' = Len(df)
    /\ observed_n' = sum_bool(observed)
    /\ outside_n' = total' - observed_n'
    /\ pc' = "timeline"
    /\ UNCHANGED <<columns, csv, flag_col, error, df, observed,
                   t0, x0, x1, w, context_col, ctx, uniq, colour, preview>>

\* lines 61-64
Timeline ==
    /\ pc = "timeline"
    /\ t0' = ws_min(df)
    /\ x0' = col_x0(df, t0')
    /\ x1' = col_x1(df, t0')
    /\ w' = col_w(x0', x1')
    /\ pc' = "context"
    /\ UNCHANGED <<columns, csv, flag_col, error, df, observed, total, observed_n,
                   outside_n, context_col, ctx, uniq, colour, preview>>

\* lines 87-123: the context track, for the column the sidebar selects
ContextTrack ==
    /\ pc = "context"
    /\ \E c \in {NoContext} \cup context_cols :
          /\ context_col' = c
          /\ IF c # NoContext
             THEN /\ ctx' = ctx_series(df, c)
                  /\ uniq' = unique(ctx')
                  /\ colour' = [i \in DOMAIN df |-> map_get(uniq', ctx'[i])]
             ELSE UNCHANGED <<ctx, uniq, colour>>
    /\ pc' = "preview"
    /\ UNCHANGED <<columns, csv, flag_col, error, df, observed, total, observed_n,
                   outside_n, t0, x0, x1, w, preview>>

\* lines 128-130: df[show_cols].head(200)
Preview ==
    /\ pc = "preview"
    /\ preview' = SubSeq(df, 1, Min(Len(df), PreviewMax))
    /\ pc' = "done"
    /\ UNCHANGED <<columns, csv, flag_col, error, df, observed, total, observed_n,
                   outside_n, t0, x0, x1, w, context_col, ctx, uniq, colour>>

Next ==
    \/ Validate
    \/ ParseTimes
    \/ DropNa
    \/ SortValues
    \/ DeriveObserved
    \/ Summary
    \/ Timeline
    \/ ContextTrack
    \/ Preview

Spec == Init /\ [][Next]_vars

\* ------------------------------------------------------------------------
\* properties

AfterParse == {"dropna", "sort", "observed", "summary", "timeline", "context",
               "preview", "done"}
AfterDrop == AfterParse \ {"dropna"}
AfterSort == AfterDrop \ {"sort"}
AfterObserved == AfterSort \ {"observed"}
AfterSummary == AfterObserved \ {"summary"}
AfterTimeline == AfterSummary \ {"timeline"}
AfterContext == AfterTimeline \ {"context"}

Parses(cell) == to_datetime(cell) # NaT
\* the CSV rows (1-based positions) whose two timestamps both parse
Survivors == {i \in DOMAIN csv :
                Parses(csv[i].window_start) /\ Parses(csv[i].window_end)}
StartOf(i) == to_datetime(csv[i].window_start)[1]
EndOf(i) == to_datetime(csv[i].window_end)[1]
SchemaDefect == ~(required_cols \subseteq columns) \/ flag_col \notin columns

\* C1: once the offsets are computed, offset_start (x0) is non-decreasing
\* from each row of the normalized table to the next.
C1_SortedByOffsetStart ==
    pc \in AfterTimeline =>
        /\ Len(x0) = Len(df)
        /\ \A i \in 1..(Len(x0) - 1) : x0[i] <= x0[i + 1]

\* a table read in descending order of window_start has been normalized
C1_Witness ==
    /\ pc = "done"
    /\ Len(csv) >= 2 /\ {1, 2} \subseteq Survivors
    /\ StartOf(1) > StartOf(2)
    /\ Len(x0) >= 2 /\ x0[1] < x0[2]

\* C2: every surviving row has duration w = max(0, offset_end - offset_start),
\* so w >= 0; a row whose window_end is earlier than its window_start is kept
\* with duration 0.
C2_DurationClamped ==
    pc \in AfterTimeline =>
        /\ Len(w) = Len(df)
        /\ \A i \in DOMAIN df :
              /\ w[i] = (IF x1[i] - x0[i] > 0 THEN x1[i] - x0[i] ELSE 0)
              /\ w[i] >= 0
        /\ \A r \in Survivors :
              EndOf(r) < StartOf(r) =>
                 \E i \in DOMAIN df : df[i].idx = r - 1 /\ w[i] = 0

\* a row that ends before it starts is in the table with duration 0
C2_Witness ==
    /\ pc = "done"
    /\ \E i \in DOMAIN df : x1[i] < x0[i] /\ w[i] = 0
    /\ \E i \in DOMAIN df : w[i] > 0

\* C3: total is the number of surviving rows, observed_count the number of
\* surviving rows with observed true, the two counts add up to total, and a
\* table with no surviving row gives three zeros and no error.
C3_SummaryCounts ==
    pc \in AfterSummary =>
        /\ total = Cardinality(Survivors)
        /\ observed_n = Cardinality({i \in DOMAIN df : observed[i]})
        /\ observed_n + outside_n = total
        /\ outside_n = Cardinality({i \in DOMAIN df : ~observed[i]})
        /\ Survivors = {} =>
              total = 0 /\ observed_n = 0 /\ outside_n = 0 /\ ~error

\* a table with observed and outside rows and a dropped row is summarised
C3_Witness ==
    /\ pc = "done"
    /\ total < Len(csv)
    /\ observed_n > 0 /\ outside_n > 0

\* every row of the table was dropped and the summary is all zeros
C3_WitnessEmpty ==
    pc = "done" /\ Len(csv) > 0 /\ total = 0 /\ observed_n = 0 /\ outside_n = 0

\* C4: with flag_col "is_outside_observation" observed is the negation of
\* the raw flag's boolean value, with any other flag column it is the raw
\* flag's boolean value (a nonzero flag is true).
C4_ObservedFromFlag ==
    pc \in AfterObserved =>
        /\ Len(observed) = Len(df)
        /\ \A i \in DOMAIN df :
              LET raw == csv[df[i].idx + 1].flag
              IN IF flag_col = "is_outside_observation"
                 THEN observed[i] = (raw = 0)
                 ELSE observed[i] = (raw # 0)

\* an outside-observation flag that is set gives observed = FALSE
C4_Witness ==
    /\ pc = "done"
    /\ flag_col = "is_outside_observation"
    /\ \E i \in DOMAIN df : df[i].flag # 0 /\ ~observed[i]
    /\ \E i \in DOMAIN df : df[i].flag = 0 /\ observed[i]

\* C5: when window_start, window_end or the chosen flag column is absent,
\* the run stops in the schema-error state at validation: the frame is still
\* the CSV as read and no summary, plot data, context track or preview exists.
C5_SchemaFailFast ==
    SchemaDefect =>
        /\ pc \in {"validate", "stopped"}
        /\ (pc = "stopped") = error
        /\ df = Frame(csv)
        /\ observed = <<>>
        /\ total = -1 /\ observed_n = -1 /\ outside_n = -1
        /\ t0 = NaT /\ x0 = <<>> /\ x1 = <<>> /\ w = <<>>
        /\ ctx = <<>> /\ uniq = <<>> /\ colour = <<>>
        /\ preview = <<>>

\* a CSV with a row but without window_end has stopped with an error
C5_Witness ==
    /\ pc = "stopped" /\ error
    /\ "window_end" \notin columns /\ "window_start" \in columns
    /\ flag_col \in columns
    /\ Len(csv) = 1

\* C6: after the drop the table holds exactly the rows whose two timestamps
\* both parse, each once; total is the number of input rows minus the number
\* of rows with an unparseable timestamp; no error is raised.
C6_DropUnparseable ==
    /\ pc \in AfterDrop =>
          /\ {df[i].idx + 1 : i \in DOMAIN df} = Survivors
          /\ Len(df) = Cardinality(Survivors)
          /\ ~error
    /\ pc \in AfterSummary =>
          total = Len(csv) - Cardinality({i \in DOMAIN csv :
                     ~Parses(csv[i].window_start) \/ ~Parses(csv[i].window_end)})

\* one row lost for its window_end alone, one row kept
C6_Witness ==
    /\ pc = "done"
    /\ Len(csv) = 2 /\ total = 1
    /\ \E i \in DOMAIN csv :
          Parses(csv[i].window_start) /\ ~Parses(csv[i].window_end)

\* C7 as stated: offset_start <= offset_end for every normalized row.
C7_OffsetsOrdered ==
    pc \in AfterTimeline => \A i \in DOMAIN df : x0[i] <= x1[i]

\* C7, amended: only the duration is clamped.  offset_start <= offset_start +
\* duration for every row, and offset_start <= offset_end exactly for the
\* rows whose window_end is not earlier than their window_start.
C7_ClampedSegment ==
    pc \in AfterTimeline =>
        \A i \in DOMAIN df :
           /\ x0[i] <= x0[i] + w[i]
           /\ (x0[i] <= x1[i]) = (StartOf(df[i].idx + 1) <= EndOf(df[i].idx + 1))

\* a row that ends before it starts keeps offset_end < offset_start
C7_Witness ==
    /\ pc = "done"
    /\ \E i \in DOMAIN df : x1[i] < x0[i] /\ w[i] = 0 /\ x0[i] > 0

\* C8 as stated: rows with equal window_start keep their input order.
C8_StableSort ==
    pc \in AfterSort =>
        \A i, j \in DOMAIN df :
           (i < j /\ df[i].window_start = df[j].window_start)
              => df[i].idx < df[j].idx

\* C8, amended: the sort arranges exactly the surviving rows, each once and
\* unchanged, in ascending window_start; the order of rows with equal
\* window_start is not fixed.
C8_SortedPermutation ==
    pc \in AfterSort =>
        /\ Len(df) = Cardinality(Survivors)
        /\ \A r \in Survivors : \E i \in DOMAIN df :
              /\ df[i].idx = r - 1
              /\ df[i].window_start = <<StartOf(r)>>
              /\ df[i].window_end = <<EndOf(r)>>
              /\ df[i].flag = csv[r].flag
              /\ df[i].label = csv[r].label
        /\ \A i \in 1..(Len(df) - 1) :
              df[i].window_start[1] <= df[i + 1].window_start[1]

\* two rows with equal window_start came out in reverse input order
C8_Witness ==
    /\ pc = "done"
    /\ \E i, j \in DOMAIN df :
          i < j /\ df[i].window_start = df[j].window_start /\ df[i].idx > df[j].idx

\* the label the context track shows for a raw value
ShownLabel(v) ==
    LET l == IF v = <<>> THEN Unknown ELSE v
        n == IF context_col = "title" /\ Len(l) > TitleMax THEN TitleMax ELSE Len(l)
    IN [j \in 1..n |-> l[j]]
\* 0-based position of row r's label among the distinct labels, first seen first
FirstSeen(r) ==
    LET first == CHOOSE k \in DOMAIN ctx :
                    ctx[k] = ctx[r] /\ \A q \in 1..(k - 1) : ctx[q] # ctx[r]
    IN Cardinality({ctx[q] : q \in 1..(first - 1)})

\* C9: a row's colour index is (i mod 20), i the first-seen position of its
\* label ("unknown" for a missing value, a title cut to 60 characters) over
\* the sorted rows; equal labels share a colour, and different labels share
\* one exactly when their positions differ by a multiple of 20.
C9_ColourByFirstSeen ==
    (pc \in AfterContext /\ context_col # NoContext) =>
        LET pos == [r \in DOMAIN df |-> FirstSeen(r)]
        IN /\ Len(ctx) = Len(df) /\ Len(colour) = Len(df)
           /\ \A r \in DOMAIN df :
                 /\ ctx[r] = ShownLabel(df[r].label)
                 /\ colour[r] = pos[r] % 20
           /\ \A r, q \in DOMAIN df :
                 IF ctx[r] = ctx[q]
                 THEN colour[r] = colour[q]
                 ELSE (colour[r] = colour[q]) = ((pos[r] - pos[q]) % 20 = 0)

\* more than 20 labels: two different labels share a colour, a missing value
\* and a literal "unknown" share a label, two long titles are cut to one
C9_Witness ==
    /\ pc = "done" /\ context_col = "title"
    /\ Len(uniq) > 20
    /\ \E r, q \in DOMAIN df : ctx[r] # ctx[q] /\ colour[r] = colour[q]
    /\ \E r, q \in DOMAIN df :
          df[r].label = <<>> /\ df[q].label = Unknown /\ colour[r] = colour[q]
    /\ \E r, q \in DOMAIN df :
          df[r].label # df[q].label /\ Len(df[r].label) > TitleMax /\ ctx[r] = ctx[q]

\* C10: with a surviving row, the epoch t0 is the least window_start of the
\* surviving rows alone, every offset_start is >= 0 and the first row's is 0.
C10_EpochOfSurvivors ==
    (pc \in AfterTimeline /\ Survivors # {}) =>
        /\ \E r \in Survivors : t0 = <<StartOf(r)>>
        /\ \A r \in Survivors : t0[1] <= StartOf(r)
        /\ \A i \in DOMAIN df : x0[i] >= 0
        /\ x0[1] = 0

\* a dropped row starts before every surviving row and is not the epoch
C10_Witness ==
    /\ pc = "done" /\ Survivors # {}
    /\ \E d \in DOMAIN csv :
          /\ d \notin Survivors
          /\ Parses(csv[d].window_start)
          /\ to_datetime(csv[d].window_start)[1] < t0[1]
    /\ x0[1] = 0

====
